---- MODULE Spec2Model ----
(***************************************************************************)
(* Model of core-client/src/transports/http.rs: the `http` transport.      *)
(*                                                                         *)
(*   receiver.map(build request, client.request(..).then(pair with msg))   *)
(*           .buffer_unordered(max_parallel)                               *)
(*           .for_each(classify, read body, msg.sender.send(result))       *)
(*                                                                         *)
(* The dispatch task is one cooperative future.  Its suspension points are *)
(* the receive on the call queue, the wait for a buffered exchange and the *)
(* body read of the item for_each currently holds; every action below is   *)
(* the code the task runs between two suspension points, or one step of    *)
(* its environment (callers, the HTTP endpoint).                           *)
(*                                                                         *)
(* Representation.  A call is named by the index c of its descriptor in    *)
(* `calls`; msg.sender of that descriptor is the writer half of oneshot c. *)
(* Response bodies are concrete JSON texts (TLA+ strings); the decoder is  *)
(* given extensionally on these texts.  An RpcError / Value result is a    *)
(* record of one fixed shape so that any two results can be compared.      *)
(***************************************************************************)
EXTENDS Integers, Sequences, FiniteSets, TLC

\* let max_parallel = 8;
max_parallel == 8

\* ---- bounds of the model ------------------------------------------------
\* producer handles alive at one time (the first one plus clones)
NumProducers == 2
\* descriptors sent in the fault scenarios (specification Spec)
MaxCalls == 2
\* descriptors sent in the load scenario beyond the window (SpecLoad)
ExtraCalls == 1
\* the first calls the stalling endpoint answers (SpecStall)
Responsive == 1
\* callers that stop waiting in the stalling scenario (SpecStall)
MaxAbandons == 2

LoadCalls == max_parallel + ExtraCalls

VARIABLES
    senders,    \* number of live producer handles (Sender clones)
    receiver,   \* the mpsc queue: sequence of [msg, parked]
    calls,      \* every descriptor sent so far, in send order (history)
    buffered,   \* the futures held by buffer_unordered
    fut,        \* the future for_each is driving, or NoFut
    task,       \* "running" | "done" | "panicked"
    handle,     \* call -> what the reader half of its oneshot holds
    reader,     \* call -> "waiting" | "dropped"
    sends,      \* call -> number of msg.sender.send executed (history)
    class,      \* call -> outcome class assigned by the classifier (history)
    bodyRead,   \* call -> res.into_body() was taken (history)
    exch        \* call -> outcome of the HTTP exchange of its request (history)

vars == <<senders, receiver, calls, buffered, fut, task,
          handle, reader, sends, class, bodyRead, exch>>

\* ---- JSON-RPC values ----------------------------------------------------

\* Result<Value, RpcError> as delivered through the oneshot.
NoResult ==
    [kind |-> "Empty", value |-> "", code |-> 0, message |-> "",
     data |-> "", text |-> "", cause |-> "", status |-> 0]

RpcOk(v) == [NoResult EXCEPT !.kind = "Ok", !.value = v]

JsonRpcError_NoData(e) ==
    [NoResult EXCEPT !.kind = "JsonRpcError", !.code = e.code,
                     !.message = e.message, !.data = "None"]

\* RpcError::JsonRpcError(Error { code, message, data })
JsonRpcError(e) ==
    [NoResult EXCEPT !.kind = "JsonRpcError", !.code = e.code,
                     !.message = e.message, !.data = e.data]

\* RpcError::ParseError(e.to_string(), e.into())
ParseError(diag, cause) ==
    [NoResult EXCEPT !.kind = "ParseError", !.text = diag, !.cause = cause]

\* RpcError::Other(err.into())
Other(cause) == [NoResult EXCEPT !.kind = "Other", !.cause = cause]

\* RpcError::Other(format_err!("Unexpected response status code: {}", status))
OtherStatus(status) ==
    [NoResult EXCEPT !.kind = "Other",
                     !.cause = "Unexpected response status code", !.status = status]

\* ---- HTTP exchange outcomes --------------------------------------------

\* The item of the buffered future: Pending, Err(hyper::Error) or Ok(res).
Pending ==
    [tag |-> "Pending", err |-> "", status |-> 0, body |-> "", complete |-> TRUE]

\* connection-level failure: no response was obtained
ConnectError == [Pending EXCEPT !.tag = "Err", !.err = "hyper::Error(Connect)"]

\* a response head with `status`; `body` is the text the body stream carries
\* and `complete` tells whether the stream ends normally or with an error
HttpResponse(status, body, complete) ==
    [Pending EXCEPT !.tag = "Ok", !.status = status, !.body = body,
                    !.complete = complete]

\* http::StatusCode::is_success
is_success(status) == 200 <= status /\ status < 300

\* ---- JSON texts and the decoder ----------------------------------------

TxtHelloHttp == "{\"jsonrpc\":\"2.0\",\"result\":\"hello http\",\"id\":1}"
TxtWorld     == "{\"jsonrpc\":\"2.0\",\"result\":\"world\",\"id\":1}"
TxtFail      == "{\"jsonrpc\":\"2.0\",\"error\":{\"code\":-34,\"message\":\"Server error\"},\"id\":1}"
TxtNotFound  == "{\"jsonrpc\":\"2.0\",\"error\":{\"code\":-32601,\"message\":\"Method not found\"},\"id\":1}"
TxtErrData   == "{\"jsonrpc\":\"2.0\",\"error\":{\"code\":-32602,\"message\":\"Invalid params\",\"data\":\"x\"},\"id\":1}"
TxtOtherId   == "{\"jsonrpc\":\"2.0\",\"result\":\"hello http2\",\"id\":2}"
TxtBatch     == "[{\"jsonrpc\":\"2.0\",\"result\":\"hello http\",\"id\":1}]"
TxtHtml      == "<html>502 Bad Gateway</html>"
\* a Latin-1 encoded body (byte E9 is no UTF-8 sequence) and its lossy decoding
BytesLatin1  == "{\"jsonrpc\":\"2.0\",\"result\":\"caf<E9>\",\"id\":1}"
TxtLossy     == "{\"jsonrpc\":\"2.0\",\"result\":\"caf<U+FFFD>\",\"id\":1}"

\* jsonrpc_core::Error { code, message, data }; data "None" is Option::None
NoError == [code |-> 0, message |-> "", data |-> "None"]
RpcErr(code, message, data) == [code |-> code, message |-> message, data |-> data]

\* jsonrpc_core::Output: Success { result, id } | Failure { error, id }
NoOutput == [tag |-> "None", result |-> "", error |-> NoError, id |-> 0]
Success(result, id) == [NoOutput EXCEPT !.tag = "Success", !.result = result, !.id = id]
Failure(error, id)  == [NoOutput EXCEPT !.tag = "Failure", !.error = error, !.id = id]

\* Result<Response, serde_json::Error>: Single(Output) | Batch(_) | Err(diag)
Single(output) == [tag |-> "Single", output |-> output, diag |-> ""]
Batch          == [tag |-> "Batch", output |-> NoOutput, diag |-> ""]
SerdeErr(diag) == [tag |-> "Err", output |-> NoOutput, diag |-> diag]

\* serde_json::from_str::<Response>(&response_str) on the texts above
from_str(text) ==
    CASE text = TxtHelloHttp -> Single(Success("hello http", 1))
      [] text = TxtWorld     -> Single(Success("world", 1))
      [] text = TxtOtherId   -> Single(Success("hello http2", 2))
      [] text = TxtFail      -> Single(Failure(RpcErr(-34, "Server error", "None"), 1))
      [] text = TxtNotFound  -> Single(Failure(RpcErr(-32601, "Method not found", "None"), 1))
      [] text = TxtErrData   -> Single(Failure(RpcErr(-32602, "Invalid params", "x"), 1))
      [] text = TxtLossy     -> Single(Success("caf<U+FFFD>", 1))
      [] text = TxtBatch     -> Batch
      [] OTHER               -> SerdeErr("expected value at line 1 column 1")

\* serde_json::to_string of a server Output (the texts the test server writes)
to_string(output) ==
    CASE output = Success("hello http", 1) -> TxtHelloHttp
      [] output = Success("world", 1)      -> TxtWorld
      [] output = Failure(RpcErr(-34, "Server error", "None"), 1) -> TxtFail
      [] OTHER                             -> TxtNotFound

\* String::from_utf8_lossy(response.as_ref()).into_owned(): valid UTF-8 is
\* kept, every invalid sequence becomes U+FFFD
from_utf8_lossy(bytes) == IF bytes = BytesLatin1 THEN TxtLossy ELSE bytes

\* ---- descriptors, requests, the test server ----------------------------

\* RpcMessage { method, params, sender }
RpcMessage(method, params, sender) ==
    [method |-> method, params |-> params, sender |-> sender]

\* what TestClient sends: hello(msg) and fail()
Workload == { <<"hello", <<"http">> >>, <<"fail", <<>> >> }

MethodCall_Numbered(msg) ==
    [jsonrpc |-> "2.0", method |-> msg.method, params |-> msg.params,
     id |-> msg.sender]

\* jsonrpc_core::Request::Single(Call::MethodCall(MethodCall { .. }))
MethodCall(msg) ==
    [jsonrpc |-> "2.0", method |-> msg.method, params |-> msg.params, id |-> 1]

\* format!("hello {}", msg)
format_hello(msg) == IF msg = "http" THEN "hello http" ELSE "hello http2"

\* tests::io: the handler of the test server
io(request) ==
    IF request.method = "hello"
    THEN IF Len(request.params) = 1
         THEN Success(format_hello(request.params[1]), request.id)
         ELSE Success("world", request.id)
    ELSE IF request.method = "fail"
         THEN Failure(RpcErr(-34, "Server error", "None"), request.id)
         ELSE Failure(RpcErr(-32601, "Method not found", "None"), request.id)

\* the exchange against the running test server
ServerReply(request) == HttpResponse(200, to_string(io(request)), TRUE)

\* what an arbitrary endpoint can make of one exchange
Faults ==
    { ConnectError,
      HttpResponse(200, TxtOtherId, TRUE),
      HttpResponse(200, TxtErrData, TRUE),
      HttpResponse(200, TxtBatch, TRUE),
      HttpResponse(200, TxtHtml, TRUE),
      HttpResponse(200, BytesLatin1, TRUE),
      HttpResponse(200, TxtHelloHttp, FALSE),
      HttpResponse(500, TxtHelloHttp, TRUE),
      HttpResponse(404, TxtFail, TRUE) }

\* ---- the classifier (for_each closure, lines 48-83) ---------------------

into_result_WholeOutput(output) ==
    IF output.tag = "Success" THEN RpcOk(to_string(output))
                              ELSE JsonRpcError(output.error)

\* let value: Result<Value, Error> = output.into(); value.map_err(JsonRpcError)
into_result(output) ==
    IF output.tag = "Success" THEN RpcOk(output.result)
                              ELSE JsonRpcError(output.error)

IsImmediate_IgnoresStatus(result) == result.tag = "Err"

\* the match of lines 49-62 yields future::err(..) for these items
IsImmediate(result) ==
    result.tag = "Err" \/ (result.tag = "Ok" /\ ~is_success(result.status))

ImmediateError_AsParse(result) ==
    IF result.tag = "Ok" THEN OtherStatus(result.status)
                         ELSE ParseError(result.err, result.err)

\* the RpcError of future::err(..), lines 50-55 and 61
ImmediateError(result) ==
    IF result.tag = "Ok" THEN OtherStatus(result.status) ELSE Other(result.err)

HitsUnreachable_Coerced(res) == FALSE

\* Response::Batch(_) => unreachable!()
HitsUnreachable(res) ==
    res.complete /\ from_str(from_utf8_lossy(res.body)).tag = "Batch"

\* lines 56-60 and 64-76: body read, decoding, Output conversion
BodyResult(res) ==
    IF ~res.complete
    THEN ParseError("error reading a body from connection", "hyper::Error(Body)")
    ELSE LET response_str == from_utf8_lossy(res.body)
             response     == from_str(response_str)
         IN IF response.tag = "Err"
            THEN ParseError(response.diag, "serde_json::Error")
            ELSE into_result(response.output)

\* the outcome class of the per-call state machine a result stands for
ClassOf(result) ==
    CASE result.kind = "Ok"           -> "Succeeded"
      [] result.kind = "JsonRpcError" -> "ApplicationError"
      [] result.kind = "ParseError"   -> "ParseFailed"
      [] result.kind = "Other" /\ result.status # 0 -> "HttpStatusError"
      [] OTHER                        -> "TransportFailed"

\* ---- state ---------------------------------------------------------------

NoMsg == RpcMessage("", <<>>, 0)
NoFut == [msg |-> NoMsg, res |-> Pending]

Calls == 1..Len(calls)

\* channel(0): a handle whose message is still in the queue is parked and
\* cannot send; `parked` of a queue entry tells that its handle is alive
Parked == {i \in 1..Len(receiver) : receiver[i].parked}

\* live handles that may send
Unparked == senders - Cardinality(Parked)

StreamEnded_IgnoresQueue == senders = 0

\* the receiver stream has ended: no message and no sender left
StreamEnded == receiver = <<>> /\ senders = 0

Init ==
    /\ senders = 1
    /\ receiver = <<>>
    /\ calls = <<>>
    /\ buffered = {}
    /\ fut = NoFut
    /\ task = "running"
    /\ handle = <<>>
    /\ reader = <<>>
    /\ sends = <<>>
    /\ class = <<>>
    /\ bodyRead = <<>>
    /\ exch = <<>>

\* ---- callers -------------------------------------------------------------

\* a producer handle is cloned (TestClient derives Clone)
Clone ==
    /\ senders >= 1
    /\ senders < NumProducers
    /\ senders' = senders + 1
    /\ UNCHANGED <<receiver, calls, buffered, fut, task,
                   handle, reader, sends, class, bodyRead, exch>>

\* drop(client): of a handle that is not parked (i = 0), or of the parked
\* handle that sent queue entry i, whose message stays in the queue
DropSender(i) ==
    /\ IF i = 0 THEN Unparked > 0 ELSE i \in Parked
    /\ senders' = senders - 1
    /\ receiver' = [j \in 1..Len(receiver) |->
                       IF j = i THEN [receiver[j] EXCEPT !.parked = FALSE]
                                ELSE receiver[j]]
    /\ UNCHANGED <<calls, buffered, fut, task,
                   handle, reader, sends, class, bodyRead, exch>>

\* a call through a live, unparked handle: the descriptor enters the queue
\* of channel(0) and the handle parks
Send(m, limit) ==
    /\ Unparked > 0
    /\ task = "running"
    /\ Len(calls) < limit
    /\ LET msg == RpcMessage(m[1], m[2], Len(calls) + 1)
       IN /\ receiver' = Append(receiver, [msg |-> msg, parked |-> TRUE])
          /\ calls' = Append(calls, msg)
    /\ handle' = Append(handle, NoResult)
    /\ reader' = Append(reader, "waiting")
    /\ sends' = Append(sends, 0)
    /\ class' = Append(class, "None")
    /\ bodyRead' = Append(bodyRead, FALSE)
    /\ exch' = Append(exch, Pending)
    /\ UNCHANGED <<senders, buffered, fut, task>>

Abandon_Aborts(c) ==
    /\ reader[c] = "waiting"
    /\ sends[c] = 0
    /\ reader' = [reader EXCEPT ![c] = "dropped"]
    /\ buffered' = {x \in buffered : x.msg.sender # c}
    /\ UNCHANGED <<senders, receiver, calls, fut, task,
                   handle, sends, class, bodyRead, exch>>

\* the caller drops the reader half of oneshot c before a result arrived
Abandon(c) ==
    /\ reader[c] = "waiting"
    /\ sends[c] = 0
    /\ reader' = [reader EXCEPT ![c] = "dropped"]
    /\ UNCHANGED <<senders, receiver, calls, buffered, fut, task,
                   handle, sends, class, bodyRead, exch>>

\* ---- the endpoint --------------------------------------------------------

\* the exchange of buffered future x resolves with outcome o;
\* .then(move |response| Ok((response, msg))) pairs it with x's own msg
Resolve(x, o) ==
    /\ task = "running"
    /\ x \in buffered
    /\ x.response.tag = "Pending"
    /\ buffered' = (buffered \ {x}) \cup {[x EXCEPT !.response = o]}
    /\ exch' = [exch EXCEPT ![x.msg.sender] = o]
    /\ UNCHANGED <<senders, receiver, calls, fut, task,
                   handle, reader, sends, class, bodyRead>>

\* ---- the dispatch task ---------------------------------------------------

SendTarget_ById(msg) == MethodCall(msg).id

\* the oneshot msg.sender writes to
SendTarget(msg) == msg.sender

AfterSend_Propagates(c) == IF reader[c] = "dropped" THEN "failed" ELSE "running"

\* the closure returns Ok(()) whether or not the send succeeded (line 81):
\* the task keeps running
AfterSend(c) == "running"

\* if let Err(err) = msg.sender.send(result) { log::warn!(..) }; Ok(())
Deliver(msg, result) ==
    LET c == SendTarget(msg)
    IN /\ handle' = IF reader[c] = "waiting"
                    THEN [handle EXCEPT ![c] = result]
                    ELSE handle
       /\ sends' = [sends EXCEPT ![c] = @ + 1]
       /\ class' = [class EXCEPT ![c] = ClassOf(result)]
       /\ task' = AfterSend(c)

Idle_Always == TRUE

\* for_each holds no future: only then does ForEach::poll poll the stream
\* (buffer_unordered, and through it the receiver)
Idle == fut = NoFut

HasRoom_OffByOne == Cardinality(buffered) <= max_parallel

\* buffer_unordered has room for another future
HasRoom == Cardinality(buffered) < max_parallel

\* buffer_unordered polls the receiver: the map closure (lines 29-46) builds
\* the request of the next descriptor and issues it
Dequeue ==
    /\ task = "running"
    /\ Idle
    /\ HasRoom
    /\ receiver # <<>>
    /\ LET msg == Head(receiver).msg
       IN buffered' = buffered \cup
              {[msg |-> msg, request |-> MethodCall(msg), response |-> Pending]}
    /\ receiver' = Tail(receiver)
    /\ UNCHANGED <<senders, calls, fut, task,
                   handle, reader, sends, class, bodyRead, exch>>

AfterYield_Keeps(x) == buffered

\* what buffer_unordered keeps after it yielded x
AfterYield(x) == buffered \ {x}

\* for_each takes a resolved item (result, msg) from buffer_unordered: an
\* Err or a non-success status is classified and delivered at once, a success
\* status starts the body read
Yield(x) ==
    /\ task = "running"
    /\ Idle
    /\ x \in buffered
    /\ x.response.tag # "Pending"
    /\ buffered' = AfterYield(x)
    /\ IF IsImmediate(x.response)
       THEN /\ Deliver(x.msg, ImmediateError(x.response))
            /\ UNCHANGED <<fut, bodyRead>>
       ELSE /\ fut' = [msg |-> x.msg, res |-> x.response]
            /\ bodyRead' = [bodyRead EXCEPT ![x.msg.sender] = TRUE]
            /\ UNCHANGED <<handle, sends, class, task>>
    /\ UNCHANGED <<senders, receiver, calls, reader, exch>>

\* the body stream of the item for_each holds ends: the result is decoded and
\* delivered; a Batch envelope hits unreachable!() and the task is dropped
\* with everything it owns
BodyDone ==
    /\ task = "running"
    /\ fut # NoFut
    /\ fut' = NoFut
    /\ IF HitsUnreachable(fut.res)
       THEN /\ task' = "panicked"
            /\ buffered' = {}
            /\ receiver' = <<>>
            /\ UNCHANGED <<handle, sends, class>>
       ELSE /\ Deliver(fut.msg, BodyResult(fut.res))
            /\ UNCHANGED <<buffered, receiver>>
    /\ UNCHANGED <<senders, calls, reader, bodyRead, exch>>

\* nothing is buffered and for_each holds no item
Drained == buffered = {} /\ fut = NoFut

\* buffer_unordered returns None (stream ended, nothing buffered): for_each
\* completes and the task ends
Finish ==
    /\ task = "running"
    /\ Drained
    /\ StreamEnded
    /\ task' = "done"
    /\ UNCHANGED <<senders, receiver, calls, buffered, fut,
                   handle, reader, sends, class, bodyRead, exch>>

\* ---- specifications ------------------------------------------------------

\* any endpoint, few calls
Next ==
    \/ Clone
    \/ \E i \in 0..Len(receiver) : DropSender(i)
    \/ \E m \in Workload : Send(m, MaxCalls)
    \/ \E x \in buffered : \E o \in Faults \cup {ServerReply(x.request)} : Resolve(x, o)
    \/ Dequeue
    \/ \E x \in buffered : Yield(x)
    \/ BodyDone
    \/ Finish

Spec == Init /\ [][Next]_vars

\* one outcome for each path of the for_each closure: connection failure,
\* status error, failed body read, Batch envelope (and the server's reply)
PathFaults ==
    { ConnectError,
      HttpResponse(500, TxtHelloHttp, TRUE),
      HttpResponse(200, TxtHelloHttp, FALSE),
      HttpResponse(200, TxtBatch, TRUE) }

\* the exchange of some buffered future resolves
SomeResolve ==
    \E x \in buffered : \E o \in PathFaults \cup {ServerReply(x.request)} : Resolve(x, o)

NextLive ==
    \/ Clone
    \/ \E i \in 0..Len(receiver) : DropSender(i)
    \/ \E m \in Workload : Send(m, MaxCalls)
    \/ SomeResolve
    \/ Dequeue
    \/ \E x \in buffered : Yield(x)
    \/ BodyDone
    \/ Finish

\* the scheduling the runtime and the endpoint are assumed to give: the task
\* is polled whenever it can make progress, every exchange resolves and every
\* body ends
Fairness ==
    /\ WF_vars(Dequeue)
    /\ WF_vars(\E x \in buffered : Yield(x))
    /\ WF_vars(BodyDone)
    /\ WF_vars(Finish)
    /\ WF_vars(SomeResolve)

FairSpec == Init /\ [][NextLive]_vars /\ Fairness

\* the running test server, more calls than the window holds
NextLoad ==
    \/ \E i \in 0..Len(receiver) : DropSender(i)
    \/ Send(<<"hello", <<"http">> >>, LoadCalls)
    \/ \E x \in buffered : Resolve(x, ServerReply(x.request))
    \/ Dequeue
    \/ \E x \in buffered : Yield(x)
    \/ BodyDone
    \/ Finish

SpecLoad == Init /\ [][NextLoad]_vars

\* the test server, which may be stopped (connection refused), and callers
\* that may stop waiting
NextAbandon ==
    \/ Clone
    \/ \E i \in 0..Len(receiver) : DropSender(i)
    \/ \E m \in Workload : Send(m, MaxCalls)
    \/ \E c \in Calls : Abandon(c)
    \/ \E x \in buffered : \E o \in {ConnectError, ServerReply(x.request)} : Resolve(x, o)
    \/ Dequeue
    \/ \E x \in buffered : Yield(x)
    \/ BodyDone
    \/ Finish

SpecAbandon == Init /\ [][NextAbandon]_vars

\* the exchange of some buffered future resolves, server running or stopped
AbandonResolve ==
    \E x \in buffered : \E o \in {ConnectError, ServerReply(x.request)} : Resolve(x, o)

\* the task is polled whenever it can make progress, and every exchange
\* resolves
FairnessAbandon ==
    /\ WF_vars(Dequeue)
    /\ WF_vars(\E x \in buffered : Yield(x))
    /\ WF_vars(BodyDone)
    /\ WF_vars(Finish)
    /\ WF_vars(AbandonResolve)

FairAbandon == SpecAbandon /\ FairnessAbandon

\* the callers whose reader is dropped
Abandoned == {c \in Calls : reader[c] = "dropped"}

\* an endpoint that answers the first calls only and leaves every other
\* exchange unresolved, under load, with some callers giving up
NextStall ==
    \/ \E i \in 0..Len(receiver) : DropSender(i)
    \/ Send(<<"hello", <<"http">> >>, LoadCalls)
    \/ \E c \in Calls : Cardinality(Abandoned) < MaxAbandons /\ Abandon(c)
    \/ \E x \in buffered :
            x.msg.sender <= Responsive /\ Resolve(x, ServerReply(x.request))
    \/ Dequeue
    \/ \E x \in buffered : Yield(x)
    \/ BodyDone
    \/ Finish

SpecStall == Init /\ [][NextStall]_vars

\* ---- properties ----------------------------------------------------------

InQueue(c) == \E i \in 1..Len(receiver) : receiver[i].msg.sender = c

InFlight(c) ==
    \/ \E x \in buffered : x.msg.sender = c
    \/ fut.msg.sender = c

\* the result the classifier makes of an exchange outcome
Classify(o) == IF IsImmediate(o) THEN ImmediateError(o) ELSE BodyResult(o)

\* the envelope a fully read success body decodes to
Decoded(o) == from_str(from_utf8_lossy(o.body))

\* the exchange of call c returned a success status and its body was read
\* to the end
BodyArrived(c) ==
    exch[c].tag = "Ok" /\ is_success(exch[c].status) /\ exch[c].complete

\* C1: the completion handle of a call is written at most once and the call
\* only moves forward: it enters as Queued, becomes Dispatched only from
\* Queued, gets its one outcome class and becomes Completed only from
\* Dispatched, and once Completed nothing about it changes any more.
C1_Step ==
    \A c \in 1..Len(calls') :
        /\ sends'[c] <= 1
        /\ (class'[c] = "None") <=> (sends'[c] = 0)
        /\ c \notin Calls => InQueue(c)' /\ ~InFlight(c)' /\ sends'[c] = 0
        /\ c \in Calls =>
            /\ (~InQueue(c) => ~InQueue(c)')
            /\ (InFlight(c)' /\ ~InFlight(c) => InQueue(c))
            /\ (sends'[c] = 1 /\ sends[c] = 0 => InFlight(c))
            /\ (sends[c] = 1 =>
                    /\ sends'[c] = 1
                    /\ class'[c] = class[c]
                    /\ handle'[c] = handle[c]
                    /\ ~InQueue(c)' /\ ~InFlight(c)')

C1_OneWayOnce == [][C1_Step]_vars

\* two calls completed with different outcome classes
C1_Witness ==
    \E c, d \in Calls :
        /\ sends[c] = 1 /\ sends[d] = 1
        /\ class[c] = "Succeeded" /\ class[d] = "ParseFailed"

\* C2: under fair scheduling, with every exchange resolving, every accepted
\* descriptor eventually has a result in its completion handle, unless the
\* dispatch task died.
C2_Delivery ==
    \A c \in 1..MaxCalls :
        (c \in Calls) ~>
            (task = "panicked"
                \/ (c \in Calls /\ sends[c] = 1 /\ handle[c].kind # "Empty"))

\* every call of a full run got a result and the task ended normally
C2_Witness ==
    /\ Len(calls) = MaxCalls
    /\ task = "done"
    /\ \A c \in Calls : handle[c].kind # "Empty"

\* exchanges issued whose result was not yet handed to the handle
Outstanding == Cardinality(buffered) + (IF fut = NoFut THEN 0 ELSE 1)

\* C3: at most max_parallel exchanges are outstanding, the one whose body is
\* being read included.
C3_Window == Outstanding <= max_parallel

\* the window is full, one of its exchanges is in the body read, and a
\* further descriptor waits in the queue
C3_Witness ==
    /\ Outstanding = max_parallel
    /\ fut # NoFut
    /\ receiver # <<>>

\* C4: what a handle holds is the classification of the exchange of the
\* request built from its own descriptor, and a handle whose call has not
\* completed holds nothing.
C4_Correlation ==
    \A c \in Calls :
        /\ sends[c] = 0 => handle[c] = NoResult
        /\ sends[c] = 1 => handle[c] = Classify(exch[c])

\* call 2 completed, with a response carrying id 2, while call 1 was still
\* in flight with another outcome
C4_Witness ==
    /\ Len(calls) >= 2
    /\ InFlight(1) /\ exch[1] = ConnectError
    /\ sends[2] = 1 /\ exch[2].body = TxtOtherId
    /\ handle[2] = RpcOk("hello http2")

\* C5: no outcome of one call ends the dispatch task: it runs until the
\* queue is closed and drained.
C5_FaultIsolation == task # "panicked"

\* C6: the task never ends while a producer handle is alive or while a
\* descriptor it took from the queue has no result (a resolved exchange shows
\* that the descriptor was taken).
C6_DrainsFirst ==
    task # "running" =>
        /\ senders = 0
        /\ \A c \in Calls : exch[c].tag # "Pending" => sends[c] = 1

\* C6, for the task ending by for_each completing: it ends only with every
\* handle gone and every descriptor sent resolved, and once all handles are
\* gone the task does end.
C6_NormalTermination ==
    /\ [](task = "done" =>
            /\ senders = 0
            /\ receiver = <<>>
            /\ \A c \in Calls : sends[c] = 1)
    /\ (senders = 0) ~> (task # "running")

\* C7: a success status with a body decoding to Single(Success(result))
\* yields Ok(result).
C7_Success ==
    \A c \in Calls :
        (sends[c] = 1 /\ BodyArrived(c) /\ Decoded(exch[c]).tag = "Single"
            /\ Decoded(exch[c]).output.tag = "Success")
        => handle[c] = RpcOk(Decoded(exch[c]).output.result)

\* hello("http") against the test server yields "hello http"
C7_Witness ==
    \E c \in Calls :
        /\ calls[c].method = "hello" /\ calls[c].params = <<"http">>
        /\ exch[c] = ServerReply(MethodCall(calls[c]))
        /\ handle[c] = RpcOk("hello http")

\* C8: a success status with a body decoding to Single(Failure(error))
\* yields JsonRpcError with the error's code, message and data.
C8_ApplicationError ==
    \A c \in Calls :
        (sends[c] = 1 /\ BodyArrived(c) /\ Decoded(exch[c]).tag = "Single"
            /\ Decoded(exch[c]).output.tag = "Failure")
        => /\ handle[c].kind = "JsonRpcError"
           /\ handle[c].code = Decoded(exch[c]).output.error.code
           /\ handle[c].message = Decoded(exch[c]).output.error.message
           /\ handle[c].data = Decoded(exch[c]).output.error.data

\* fail() against the test server yields code -34, "Server error", no data
C8_Witness ==
    \E c \in Calls :
        /\ calls[c].method = "fail"
        /\ exch[c] = ServerReply(MethodCall(calls[c]))
        /\ handle[c].kind = "JsonRpcError"
        /\ handle[c].code = -34
        /\ handle[c].message = "Server error"
        /\ handle[c].data = "None"

\* C9: an exchange that failed before any response yields Other wrapping
\* the connection error.
C9_TransportFailure ==
    \A c \in Calls :
        (sends[c] = 1 /\ exch[c].tag = "Err")
        => /\ handle[c].kind = "Other"
           /\ handle[c].cause = exch[c].err
           /\ handle[c].status = 0

\* a call resolved with the connect error
C9_Witness ==
    \E c \in Calls :
        /\ exch[c] = ConnectError
        /\ handle[c] = Other("hyper::Error(Connect)")

\* C10: a non-success status yields Other carrying the status code, and the
\* body of such a response is never taken.
C10_StatusError ==
    \A c \in Calls :
        (exch[c].tag = "Ok" /\ ~is_success(exch[c].status))
        => /\ ~bodyRead[c]
           /\ sends[c] = 1 =>
                /\ handle[c].kind = "Other"
                /\ handle[c].status = exch[c].status

\* status 500 with a well-formed result body resolved as a status error
C10_Witness ==
    \E c \in Calls :
        /\ exch[c] = HttpResponse(500, TxtHelloHttp, TRUE)
        /\ handle[c] = OtherStatus(500)
        /\ ~bodyRead[c]

\* C11: a success status with a fully read body that does not decode to a
\* response envelope yields a ParseError carrying the text of the body and
\* the parser's diagnostic, never Ok and never JsonRpcError.
C11_ParseFailure ==
    \A c \in Calls :
        (sends[c] = 1 /\ BodyArrived(c) /\ Decoded(exch[c]).tag = "Err")
        => /\ handle[c].kind = "ParseError"
           /\ handle[c].text = from_utf8_lossy(exch[c].body)
           /\ handle[c].cause = "serde_json::Error"

\* the step executes the send of call c, whose reader was dropped
FailedSend(c) ==
    /\ c \in Calls
    /\ reader[c] = "dropped"
    /\ sends[c] = 0
    /\ sends'[c] = 1

\* C12: a delivery to a dropped reader changes nothing but the call's own
\* bookkeeping: the task keeps running, no handle is written, the other
\* buffered calls and the queue are as before; and every descriptor accepted,
\* before or after, still has its send executed, with a result in the handle
\* of every caller that waits.
C12_Step ==
    \A c \in Calls :
        FailedSend(c) =>
            /\ task' = "running"
            /\ handle' = handle
            /\ receiver' = receiver
            /\ \A x \in buffered : x.msg.sender # c => x \in buffered'
            /\ \A d \in Calls \ {c} : sends'[d] = sends[d] /\ class'[d] = class[d]

C12_AbandonedCaller ==
    /\ [][C12_Step]_vars
    /\ \A c \in 1..MaxCalls :
        (c \in Calls) ~>
            (/\ c \in Calls
             /\ sends[c] = 1
             /\ reader[c] = "waiting" => handle[c].kind # "Empty")

\* the send to a dropped reader was executed and left the handle empty, the
\* task runs, and a call made after it completed with the server's answer
C12_Witness ==
    \E c, d \in Calls :
        /\ c < d
        /\ reader[c] = "dropped" /\ sends[c] = 1 /\ handle[c] = NoResult
        /\ reader[d] = "waiting" /\ handle[d].kind = "Ok"
        /\ task = "running"

\* C13: the queue buffers nothing: a send completes only when the task takes
\* the descriptor, so while the window holds max_parallel requests in flight
\* no descriptor has been accepted that the task did not take.
C13_Rendezvous ==
    Cardinality(buffered) = max_parallel => receiver = <<>>

\* the exchange of the buffered future x is over and its result not yet
\* delivered: it failed, or returned a status whose body is not read
FinishedUndelivered(x) ==
    /\ x \in buffered
    /\ x.response.tag # "Pending"
    /\ IsImmediate(x.response)

\* C14: handles are written in the order in which the exchanges finish: when
\* the body of a call ends and its handle is written, no call whose exchange
\* was already over is still waiting for its result.
C14_Step ==
    \A c \in Calls :
        (fut.msg.sender = c /\ sends[c] = 0 /\ sends'[c] = 1)
        => ~ \E x \in buffered : x.msg.sender # c /\ FinishedUndelivered(x)

C14_FinishOrder == [][C14_Step]_vars

\* the connection of call c was dropped: it could not be established, or the
\* body stream of a success response failed before its end
Dropped(c) ==
    \/ exch[c].tag = "Err"
    \/ exch[c].tag = "Ok" /\ is_success(exch[c].status) /\ ~exch[c].complete

\* C15: a call whose connection was dropped at any point of the exchange,
\* the body read included, resolves to Other (the transport error); a
\* ParseError is the result only of a body that was received to its end and
\* does not decode to a response envelope.
C15_DroppedConnection ==
    \A c \in Calls :
        sends[c] = 1 =>
            /\ Dropped(c) => handle[c].kind = "Other"
            /\ handle[c].kind = "ParseError" =>
                    BodyArrived(c) /\ Decoded(exch[c]).tag = "Err"

\* C16: whenever fewer than max_parallel exchanges are outstanding and a
\* descriptor waits in the queue, the task can issue its request at once,
\* whatever another call's exchange, body read or delivery is doing.
C16_ImmediateRelease ==
    (task = "running" /\ Outstanding < max_parallel /\ receiver # <<>>)
    => ENABLED Dequeue

\* the exchange of call c returned a success status and a Batch envelope
IsBatch(c) == BodyArrived(c) /\ Decoded(exch[c]).tag = "Batch"

\* C17: a call whose response is a Batch envelope never gets a result: when
\* its body ends the task stops with nothing written, and from then on no
\* handle is written, no send executed and no further call accepted.
C17_BatchFatal ==
    /\ [](\A c \in Calls : IsBatch(c) => sends[c] = 0 /\ handle[c] = NoResult)
    /\ [][(fut # NoFut /\ IsBatch(fut.msg.sender) /\ fut' = NoFut)
            => task' = "panicked"]_vars
    /\ [][task = "panicked"
            => /\ task' = "panicked"
               /\ handle' = handle
               /\ sends' = sends
               /\ calls' = calls
               /\ buffered' = {} /\ fut' = NoFut /\ receiver' = <<>>]_vars

\* the task stopped on a Batch envelope while a producer handle was alive
\* and another call, its exchange already resolved, had no result
C17_Witness ==
    /\ task = "panicked"
    /\ senders > 0
    /\ \E c, d \in Calls :
        /\ IsBatch(c) /\ handle[c] = NoResult
        /\ d # c /\ exch[d].tag # "Pending" /\ sends[d] = 0 /\ handle[d] = NoResult

\* the futures in buffer_unordered whose exchange has not resolved
Unresolved == {x \in buffered : x.response.tag = "Pending"}

\* C18: a future leaves buffer_unordered only by way of its own exchange
\* resolving: in every step, a caller giving up included, an unresolved
\* future stays or becomes the same future with its exchange's outcome; and
\* while max_parallel unresolved futures fill the window the task takes no
\* descriptor, so the descriptors in the queue stay there without a result.
C18_Step ==
    /\ \A x \in Unresolved :
        \/ x \in buffered'
        \/ /\ exch'[x.msg.sender].tag # "Pending"
           /\ [x EXCEPT !.response = exch'[x.msg.sender]] \in buffered'
    /\ Cardinality(Unresolved) = max_parallel =>
        \A c \in Calls : InQueue(c) => InQueue(c)' /\ sends'[c] = 0

C18_SlotHeld ==
    /\ [][C18_Step]_vars
    /\ [](Cardinality(Unresolved) = max_parallel => ~ENABLED Dequeue)

\* max_parallel unresolved exchanges fill the window, the caller of one of
\* them gave up, and a further descriptor waits in the queue
C18_Witness ==
    /\ Cardinality(Unresolved) = max_parallel
    /\ \E x \in Unresolved : reader[x.msg.sender] = "dropped"
    /\ receiver # <<>>
    /\ task = "running"

\* C19: every request issued carries version "2.0" and id 1, with the method
\* and params of its descriptor, whoever sent it and whatever else is
\* outstanding: the ids of two outstanding requests are equal.
C19_FixedId ==
    /\ \A x \in buffered :
        /\ x.request.jsonrpc = "2.0"
        /\ x.request.id = 1
        /\ x.request.method = x.msg.method
        /\ x.request.params = x.msg.params
    /\ \A x, y \in buffered : x.request.id = y.request.id

\* two requests of different calls, with different methods, are outstanding
\* at once
C19_Witness ==
    \E x, y \in Unresolved :
        /\ x.msg.sender # y.msg.sender
        /\ x.request.method = "hello" /\ y.request.method = "fail"
        /\ x.request.id = 1 /\ y.request.id = 1

\* C20: at most one response is between the start of its body read and its
\* delivery, the one for_each holds; and in a step taken while a body is
\* being read no other call has its send executed or its handle written, no
\* descriptor leaves the queue, no request is issued and no other future
\* leaves buffer_unordered.
C20_Step ==
    fut # NoFut =>
        /\ \A c \in Calls \ {fut.msg.sender} :
            sends'[c] = sends[c] /\ handle'[c] = handle[c]
        /\ \A c \in Calls : InQueue(c) => InQueue(c)'
        /\ \A x \in buffered' : \E y \in buffered : y.msg = x.msg
        /\ \A x \in buffered : \E y \in buffered' : y.msg = x.msg

C20_Serialized ==
    /\ [](\A c \in Calls : bodyRead[c] /\ sends[c] = 0 => fut.msg.sender = c)
    /\ [][C20_Step]_vars

\* a body is being read while another exchange has its response, a
\* descriptor waits in the queue and the window has free slots
C20_Witness ==
    /\ fut # NoFut
    /\ \E x \in buffered : x.response.tag # "Pending"
    /\ receiver # <<>>
    /\ Outstanding < max_parallel
    /\ task = "running"

====
